---------------------------- MODULE Spec2Model ----------------------------
(***************************************************************************)
(* Tiled 3DEP DEM acquisition and mosaic pipeline of data/usgs:            *)
(*   - acquire_and_preprocess_lidar_dems.py   (variant "acq")              *)
(*   - lidar_dems_from_service.py             (variant "svc")              *)
(*   - get_3dep_static_tiles.py               (variant "static")           *)
(*   - tile_wbds.py / acquire_and_preprocess_lidar_dems.py: tile_geometry  *)
(*   - create_3dep_tile_index.py and three more files: retry_request       *)
(*                                                                         *)
(* Four specifications share the variables:                                *)
(*   Spec      one run of the pipeline function (scheduler + workers)      *)
(*   SpecJob   retrieve_process_write_single_3dep_dem_tile called directly *)
(*   SpecTile  the generator tile_geometry on a lattice region             *)
(*   SpecRetry one call of retry_request                                   *)
(***************************************************************************)
EXTENDS Integers, Sequences, FiniteSets, TLC

\* ------------------------------------------------------------------ bounds
NTiles == 2            \* rows of the tile inputs (tile jobs of one run)
MaxRetriesBound == 2   \* max_retries is drawn from 1..MaxRetriesBound

Tiles == 1..NTiles
Variants == {"acq", "svc", "static"}
\* attempt counters saturate here; the code only compares them with max_retries
CallCap == MaxRetriesBound + 1

VARIABLES
    mode,                 \* "run" | "direct" | "tile": which entry point was called
    variant,              \* which source file's routine
    max_retries,          \* max_retries argument / MAX_RETRIES of the module
    waive_overwrite_check,\* argument of that name (svc, static)
    overwrite_check,      \* argument of that name (acq)
    retry,                \* argument of that name (acq)
    client_arg,           \* "given" | "none": the client argument
    tile_inputs,          \* the rows of the tile inputs: the tiles of this run
    same_crs,             \* wbd_crs.is_exact_same(dem_vrt_crs) (acq)
    huc_skipped,          \* huc_set is given and the WBD has a feature whose HUC
                          \* is not in it (acq)
    \* ---- pipeline function (scheduler side)
    schedPc,              \* position in the pipeline function
    abortCause,           \* exception that left the pipeline function, "none" if none
    answer,               \* what input() returned, "unasked" if no prompt was shown
    local_client,         \* "unbound" | "True" | "False" (the local of that name)
    clientState,          \* "none" | "given" | "shared" | "own_open" | "own_closed"
    submits,              \* per tile: number of client.submit calls
    completedQ,           \* futures in completion order (what as_completed yields)
    nCollected,           \* loop index i of the collection loop
    dem_tile_file_names,  \* the list handed to BuildVRT
    raisedSeen,           \* tiles whose future.result() raised in the scheduler
    vrt,                  \* the VRT file: absent, left by an earlier run, or built from srcs
    \* ---- files
    dirExists,            \* dem_3dep_dir exists
    disk,                 \* tile output files in dem_3dep_dir
    prev_outputs,         \* tiles whose output a previous run left in dem_3dep_dir
    ledger,               \* JobLedger of the design: tiles recorded as succeeded
    \* ---- worker side, per tile job
    wpc,                  \* "idle" | "dyn" | "static" | "post" | "returned" | "raised"
    retries,              \* the local counter `retries`
    dem,                  \* "unbound" | "dynamic" | "static": what `dem` holds
    dynCalls,             \* py3dep.get_map calls made
    statCalls,            \* py3dep.static_3dep_dem calls made
    allFailed,            \* no source call of the job has succeeded so far
    attrs,                \* per tile: dem.attrs of the raster written, <<>> if none
    written,              \* <<file name, job>> for every to_raster call made
    nodata,               \* per tile: the no-data value written on its output
    \* ---- tile_geometry(geometry, max_tile_size, tile_buffer)
    geometry,             \* the region: a set of closed unit squares <<i, j>>
    invalid_sq,           \* square (of the leftmost column) at which the region's
                          \* ring is defective, or NoSq for a valid region
    max_tile_size,
    tile_buffer,
    tIdx,                 \* how many elements of tile_borders the loop has consumed
    cells,                \* every buffered cell built so far, with its intersection
    tiles,                \* the tiles yielded so far
    \* ---- retry_request(url, max_retries, sleep_time)
    rq_max_retries,       \* the max_retries argument of retry_request
    rq_pc,                \* "idle" | "loop" | "after" | "returned" | "raised" | "fell_off"
    rq_i,                 \* the loop variable i, Unbound before the first iteration
    response,             \* "unbound" | "200" | "non200": status of the local `response`
    rq_log,               \* outcome of every requests.get call made, in order
    rq_exc                \* exception that left retry_request, "none" if none

schedVars == <<schedPc, abortCause, answer, local_client, clientState, submits,
               nCollected, dem_tile_file_names, raisedSeen, vrt>>
fileVars == <<dirExists, disk, prev_outputs, ledger>>
workVars == <<wpc, retries, dem, dynCalls, statCalls, allFailed>>
cfgVars == <<mode, variant, max_retries, waive_overwrite_check, overwrite_check,
             retry, client_arg, tile_inputs, same_crs, huc_skipped>>
outVars == <<attrs, written, nodata>>
tileVars == <<geometry, invalid_sq, max_tile_size, tile_buffer, tIdx, cells, tiles>>
reqVars == <<rq_max_retries, rq_pc, rq_i, response, rq_log, rq_exc>>
vars == <<cfgVars, schedVars, completedQ, fileVars, workVars, outVars, tileVars,
          reqVars>>

\* ---------------------------------------------------------------- helpers
\* destVRT: not there / there from an earlier run
\* `over` is what lay at destVRT when BuildVRT wrote the file
\* srcNodata and VRTNodata are the two no-data options the file was built with
NoVrt == [state |-> "absent", srcs |-> <<>>, over |-> "none",
          srcNodata |-> "none", VRTNodata |-> "none"]
OldVrt == [state |-> "old", srcs |-> <<>>, over |-> "none",
           srcNodata |-> "none", VRTNodata |-> "none"]
\* destVRT after os.remove(destVRT)
RemovedVrt == [state |-> "removed", srcs |-> <<>>, over |-> "none",
               srcNodata |-> "none", VRTNodata |-> "none"]

\* the job has been submitted and the pipeline function is waiting in
\* as_completed, or the worker was called directly
Awaited == mode = "direct" \/ schedPc = "collect"

Sat(n) == IF n + 1 > CallCap THEN CallCap ELSE n + 1

\* `retries = 0` (svc, static) or `retries = 1` (acq) before the loop
InitRetries(v) == IF v = "acq" THEN 1 ELSE 0

\* `if retries > max_retries:` / `if retries > MAX_RETRIES:`
ExceedsMax(r) == r > max_retries

\* where the loop goes when the static call raised: `break` (svc, static) leaves
\* the loop with `dem` unbound, so the next statement raises UnboundLocalError;
\* acq has no break in its except branch and the `while True` goes round again
AfterStaticFailure(v) == IF v = "acq" THEN "dyn" ELSE "raised"

\* every job given the same file name
FileNameShared(j) == <<1, 0>>

\* f'{huc}_{idx}.{write_ext}': idx comes from the tile inputs file (svc, static),
\* so a rerun names the same file; acq draws a fresh uuid4 per run (generation 1)
FileName(j) == IF variant = "acq" THEN <<j, 1>> ELSE <<j, 0>>

\* the future of job j completes: as_completed will yield it
Complete(j) == IF mode = "run" THEN Append(completedQ, j) ELSE completedQ

\* no square
NoSq == <<-1, -1>>

\* tile_geometry is not being run
TileIdle ==
    /\ geometry = {}
    /\ invalid_sq = NoSq
    /\ max_tile_size = 1
    /\ tile_buffer = 0
    /\ tIdx = 0
    /\ cells = <<>>
    /\ tiles = <<>>

\* the loop variable before `for i in range(max_retries)` has bound it
Unbound == -1

\* retry_request is not being run
ReqIdle ==
    /\ rq_max_retries = 0
    /\ rq_pc = "idle"
    /\ rq_i = Unbound
    /\ response = "unbound"
    /\ rq_log = <<>>
    /\ rq_exc = "none"

\* ----------------------------------------------------------------- worker
\* one py3dep.get_map call of the retry loop and the branch taken on its outcome
DynCall(j) ==
    /\ Awaited
    /\ wpc[j] = "dyn"
    /\ dynCalls' = [dynCalls EXCEPT ![j] = Sat(@)]
    /\ \E ok \in BOOLEAN :
         IF ok
         THEN /\ dem' = [dem EXCEPT ![j] = "dynamic"]
              /\ wpc' = [wpc EXCEPT ![j] = "post"]
              /\ allFailed' = [allFailed EXCEPT ![j] = FALSE]
              /\ UNCHANGED retries
         ELSE /\ retries' = [retries EXCEPT ![j] = Sat(@)]
              /\ wpc' = [wpc EXCEPT ![j] =
                           IF ExceedsMax(retries'[j]) THEN "static" ELSE "dyn"]
              /\ UNCHANGED <<dem, allFailed>>
    /\ UNCHANGED <<cfgVars, reqVars, tileVars, outVars, schedVars, completedQ, fileVars, statCalls>>

\* the py3dep.static_3dep_dem call and the branch taken on its outcome
StaticCall(j) ==
    /\ Awaited
    /\ wpc[j] = "static"
    /\ statCalls' = [statCalls EXCEPT ![j] = Sat(@)]
    /\ \E ok \in BOOLEAN :
         IF ok
         THEN /\ dem' = [dem EXCEPT ![j] = "static"]
              /\ wpc' = [wpc EXCEPT ![j] = "post"]
              /\ allFailed' = [allFailed EXCEPT ![j] = FALSE]
              /\ UNCHANGED completedQ
         ELSE /\ wpc' = [wpc EXCEPT ![j] = AfterStaticFailure(variant)]
              /\ completedQ' = IF AfterStaticFailure(variant) = "raised"
                               THEN Complete(j) ELSE completedQ
              /\ UNCHANGED <<dem, allFailed>>
    /\ UNCHANGED <<cfgVars, reqVars, tileVars, outVars, schedVars, fileVars, retries, dynCalls>>

\* dem.attrs after the three assignments before the write: TILE_ID, HUC and
\* ACQUIRED_DATETIME_UTC (acq keeps the source in the local dem_source and
\* writes it nowhere)
DemAttrs(j) ==
    [TILE_ID |-> FileName(j), HUC |-> "huc", ACQUIRED_DATETIME_UTC |-> "utcnow"]

\* no raster written
NoAttrs == <<>>

\* the ndv argument of the pipeline function: a number, ELEV_RASTER_NDV unless
\* the caller gives another
ndv == "ndv"

\* no no-data value written
NoNodata == "unset"

\* .rio.write_nodata(ndv, ...) on the raster before to_raster
WrittenNodata(v) == ndv

\* srcNodata of BuildVRTOptions: ndv (svc, static), the text 'nan' (acq)
SrcNodata(v) == IF v = "acq" THEN "nan" ELSE ndv

\* VRTNodata of BuildVRTOptions: ndv in every variant
VRTNodata(v) == ndv

\* nodata check, reproject, write_nodata, to_raster: returns the file name or raises
Post(j) ==
    /\ Awaited
    /\ wpc[j] = "post"
    /\ \E outcome \in {"ok", "raise"} :
         IF outcome = "ok"
         THEN /\ disk' = disk \cup {FileName(j)}
              /\ attrs' = [attrs EXCEPT ![j] = DemAttrs(j)]
              /\ nodata' = [nodata EXCEPT ![j] = WrittenNodata(variant)]
              /\ written' = written \cup {<<FileName(j), j>>}
              /\ wpc' = [wpc EXCEPT ![j] = "returned"]
         ELSE /\ wpc' = [wpc EXCEPT ![j] = "raised"]
              /\ UNCHANGED <<disk, attrs, written, nodata>>
    /\ completedQ' = Complete(j)
    /\ UNCHANGED <<cfgVars, reqVars, tileVars, schedVars, dirExists, prev_outputs, ledger,
                   retries, dem, dynCalls, statCalls, allFailed>>

Worker == \E j \in Tiles : DynCall(j) \/ StaticCall(j) \/ Post(j)

\* ------------------------------------------------- direct call of the worker
InitJob ==
    /\ mode = "direct"
    /\ variant \in Variants
    /\ max_retries \in 1..MaxRetriesBound
    /\ waive_overwrite_check = FALSE
    /\ overwrite_check = FALSE
    /\ retry = FALSE
    /\ client_arg = "none"
    /\ tile_inputs = Tiles
    /\ same_crs = FALSE
    /\ huc_skipped = FALSE
    /\ schedPc = "direct"
    /\ abortCause = "none"
    /\ answer = "unasked"
    /\ local_client = "unbound"
    /\ clientState = "none"
    /\ submits = [j \in Tiles |-> 0]
    /\ completedQ = <<>>
    /\ nCollected = 0
    /\ dem_tile_file_names = <<>>
    /\ raisedSeen = {}
    /\ vrt = NoVrt
    /\ dirExists = TRUE
    /\ disk = {}
    /\ prev_outputs = {}
    /\ ledger = {}
    /\ wpc = [j \in Tiles |-> "dyn"]
    /\ retries = [j \in Tiles |-> InitRetries(variant)]
    /\ dem = [j \in Tiles |-> "unbound"]
    /\ dynCalls = [j \in Tiles |-> 0]
    /\ statCalls = [j \in Tiles |-> 0]
    /\ allFailed = [j \in Tiles |-> TRUE]
    /\ attrs = [j \in Tiles |-> NoAttrs]
    /\ written = {}
    /\ nodata = [j \in Tiles |-> NoNodata]
    /\ TileIdle
    /\ ReqIdle

SpecJob == InitJob /\ [][Worker]_vars

\* the worker steps keep running while a job has a step to take
SpecJobFair == InitJob /\ [][Worker]_vars /\ \A j \in Tiles :
                   WF_vars(DynCall(j) \/ StaticCall(j) \/ Post(j))

Terminated(j) == wpc[j] \in {"returned", "raised"}

\* C1 (as claimed): a job whose dynamic and static calls always fail makes no
\* more than max_retries dynamic calls and no more than one static call, and
\* when it has ended in failure it has made exactly max_retries dynamic calls
\* followed by exactly one static call.
C1_RetryBound ==
    \A j \in Tiles :
        allFailed[j] =>
            /\ dynCalls[j] <= max_retries
            /\ statCalls[j] <= 1
            /\ (Terminated(j) => dynCalls[j] = max_retries /\ statCalls[j] = 1)

\* C1, termination half under fair scheduling of the worker: every job ends.
C1_Terminates == \A j \in Tiles : <>Terminated(j)

\* C2 (as claimed): the static source is called only once the failure counter
\* has exceeded max_retries, at most once per job, and no source call of either
\* kind follows a static call.
C2_StaticOnce ==
    [][\A j \in Tiles :
          /\ (statCalls'[j] # statCalls[j] =>
                 ExceedsMax(retries[j]) /\ statCalls[j] = 0)
          /\ (statCalls[j] > 0 => dynCalls'[j] = dynCalls[j])]_vars

\* ------------------------------------------------------ pipeline function
Answers == {"y", "YES", "n", ""}

\* str.lower() on the answers above
Lower(a) == CASE a = "Y" -> "y" [] a = "YES" -> "yes" [] OTHER -> a

\* (answer.lower() == 'y') | (answer.lower() == 'yes')
SaysYes(a) == Lower(a) = "y" \/ Lower(a) = "yes"

\* files a previous run left for the tiles it completed
PrevFiles(done) == {<<j, 0>> : j \in done}

\* a call of the pipeline function.  max_retries is handed on to the worker
\* unchanged; the run takes 1, the retry loop is explored for every value in
\* the direct call of the worker.
Init ==
    /\ mode = "run"
    /\ variant \in Variants
    /\ max_retries = 1
    /\ waive_overwrite_check \in (IF variant = "acq" THEN {FALSE} ELSE BOOLEAN)
    /\ overwrite_check \in (IF variant = "acq" THEN BOOLEAN ELSE {FALSE})
    /\ retry \in (IF variant = "acq" THEN BOOLEAN ELSE {FALSE})
    /\ client_arg \in {"given", "none"}
    /\ tile_inputs \in {1..n : n \in 0..NTiles}
    /\ same_crs \in (IF variant = "acq" THEN BOOLEAN ELSE {FALSE})
    /\ huc_skipped \in (IF variant = "acq" THEN BOOLEAN ELSE {FALSE})
    /\ schedPc = "start"
    /\ abortCause = "none"
    /\ answer = "unasked"
    /\ local_client = "unbound"
    /\ clientState = "none"
    /\ submits = [j \in Tiles |-> 0]
    /\ completedQ = <<>>
    /\ nCollected = 0
    /\ dem_tile_file_names = <<>>
    /\ raisedSeen = {}
    /\ prev_outputs \in {{}, {1}}
    /\ dirExists \in (IF prev_outputs = {} THEN BOOLEAN ELSE {TRUE})
    /\ vrt \in (IF dirExists THEN {NoVrt, OldVrt} ELSE {NoVrt})
    /\ disk = PrevFiles(prev_outputs)
    /\ ledger = prev_outputs
    /\ wpc = [j \in Tiles |-> "idle"]
    /\ retries = [j \in Tiles |-> InitRetries(variant)]
    /\ dem = [j \in Tiles |-> "unbound"]
    /\ dynCalls = [j \in Tiles |-> 0]
    /\ statCalls = [j \in Tiles |-> 0]
    /\ allFailed = [j \in Tiles |-> TRUE]
    /\ attrs = [j \in Tiles |-> NoAttrs]
    /\ written = {}
    /\ nodata = [j \in Tiles |-> NoNodata]
    /\ TileIdle
    /\ ReqIdle

\* an exception leaves the pipeline function
Raise(cause) ==
    /\ schedPc' = "aborted"
    /\ abortCause' = cause

\* shutil.rmtree(dem_3dep_dir) followed by os.makedirs(dem_3dep_dir, exist_ok=True)
RmtreeAndMakedirs ==
    /\ disk' = {}
    /\ vrt' = NoVrt
    /\ dirExists' = TRUE

\* os.makedirs(dem_3dep_dir, exist_ok=True) alone
MakedirsOnly ==
    /\ dirExists' = TRUE
    /\ UNCHANGED <<disk, vrt>>

\* svc: waived -> rmtree; else prompt, y/yes -> rmtree, anything else -> exit()
StartSvc ==
    IF waive_overwrite_check
    THEN /\ RmtreeAndMakedirs
         /\ schedPc' = "client"
         /\ UNCHANGED <<answer, abortCause>>
    ELSE \E a \in Answers :
           /\ answer' = a
           /\ IF SaysYes(a)
              THEN RmtreeAndMakedirs /\ schedPc' = "client"
              ELSE schedPc' = "exited" /\ UNCHANGED <<disk, vrt, dirExists>>
           /\ UNCHANGED abortCause

\* static: prompt only when not waived and the directory exists; waived and
\* existing -> rmtree
StartStatic ==
    IF ~waive_overwrite_check /\ dirExists
    THEN \E a \in Answers :
           /\ answer' = a
           /\ IF SaysYes(a)
              THEN RmtreeAndMakedirs /\ schedPc' = "client"
              ELSE schedPc' = "exited" /\ UNCHANGED <<disk, vrt, dirExists>>
           /\ UNCHANGED abortCause
    ELSE /\ IF dirExists THEN RmtreeAndMakedirs ELSE MakedirsOnly
         /\ schedPc' = "client"
         /\ UNCHANGED <<answer, abortCause>>

\* acq: `answer.lower() != 'y' | answer.lower() != 'yes'` evaluates 'y' | str
\* first and raises TypeError; with retry set, os.path.exist is no attribute of
\* os.path and raises AttributeError
StartAcq ==
    IF ~retry
    THEN IF overwrite_check /\ dirExists
         THEN \E a \in Answers :
                /\ answer' = a
                /\ Raise("TypeError")
                /\ UNCHANGED <<disk, vrt, dirExists>>
         ELSE /\ MakedirsOnly
              /\ schedPc' = "client"
              /\ UNCHANGED <<answer, abortCause>>
    ELSE /\ Raise("AttributeError")
         /\ UNCHANGED <<answer, disk, vrt, dirExists>>

Start ==
    /\ schedPc = "start"
    /\ CASE variant = "svc" -> StartSvc
         [] variant = "static" -> StartStatic
         [] variant = "acq" -> StartAcq
    /\ UNCHANGED <<cfgVars, reqVars, tileVars, outVars, local_client, clientState, submits, nCollected,
                   dem_tile_file_names, raisedSeen, completedQ, prev_outputs,
                   ledger, workVars>>

\* `if client is None:` get_client() / Client(...); acq never calls get_client
CreateClient ==
    /\ schedPc = "client"
    /\ IF client_arg = "given"
       THEN clientState' = "given" /\ UNCHANGED local_client
       ELSE \E running \in (IF variant = "acq" THEN {FALSE} ELSE BOOLEAN) :
              IF running
              THEN clientState' = "shared" /\ local_client' = "False"
              ELSE clientState' = "own_open" /\ local_client' = "True"
    /\ schedPc' = "submit"
    /\ UNCHANGED <<cfgVars, reqVars, tileVars, outVars, abortCause, answer, submits, nCollected,
                   dem_tile_file_names, raisedSeen, vrt, completedQ, fileVars,
                   workVars>>

\* the None of a slot of dem_tile_file_names no result has been stored in
NoName == <<0, -1>>

\* the list the collection loop fills: [None] * len(futures) (svc), [] (acq)
EmptyNames(v) ==
    IF v = "acq" THEN <<>> ELSE [k \in 1..Cardinality(tile_inputs) |-> NoName]

\* client.submit for every row of the tile inputs, whatever the files on disk
SubmitAll ==
    /\ submits' = [j \in Tiles |->
                      IF j \in tile_inputs THEN submits[j] + 1 ELSE submits[j]]
    /\ wpc' = [j \in Tiles |-> IF j \in tile_inputs THEN "dyn" ELSE wpc[j]]
    /\ dem_tile_file_names' = EmptyNames(variant)
    /\ schedPc' = IF tile_inputs = {} THEN "vrt" ELSE "collect"
    /\ UNCHANGED abortCause

\* acq with a feature off huc_set: generate_inputs_for_3dep_dem_acquisition
\* returns None for it (a bare `return`), and `for idx, huc, geometry in
\* tile_inputs` over that None raises TypeError. The input futures arrive in any
\* order, so the tiles of any set of other features have been submitted by then
SubmitUntilNone ==
    \E before \in SUBSET tile_inputs :
        /\ submits' = [j \in Tiles |->
                          IF j \in before THEN submits[j] + 1 ELSE submits[j]]
        /\ wpc' = [j \in Tiles |-> IF j \in before THEN "dyn" ELSE wpc[j]]
        /\ Raise("TypeError")
        /\ UNCHANGED dem_tile_file_names

\* `if wbd_crs.is_exact_same(dem_vrt_crs): raise ValueError(...)`
CrsCheckRaises == same_crs

\* static: the partial() reads the local tile_urls before its assignment;
\* acq: the CRS test, then the input and tile jobs; svc: submit
Submit ==
    /\ schedPc = "submit"
    /\ CASE variant = "static" ->
              /\ Raise("UnboundLocalError")
              /\ UNCHANGED <<submits, wpc, dem_tile_file_names>>
         [] variant = "acq" ->
              IF CrsCheckRaises
              THEN /\ Raise("ValueError")
                   /\ UNCHANGED <<submits, wpc, dem_tile_file_names>>
              ELSE IF huc_skipped THEN SubmitUntilNone ELSE SubmitAll
         [] variant = "svc" -> SubmitAll
    /\ UNCHANGED <<cfgVars, reqVars, tileVars, outVars, answer, local_client, clientState, nCollected,
                   raisedSeen, vrt, completedQ, fileVars, retries, dem,
                   dynCalls, statCalls, allFailed>>

\* every result stored in the first slot of the list
StoreNameFirstSlot(names, i, name) == [names EXCEPT ![1] = name]

\* dem_tile_file_names[i] = future.result() (svc) / .append(pf.result()) (acq)
StoreName(names, i, name) ==
    IF variant = "acq" THEN Append(names, name) ELSE [names EXCEPT ![i] = name]

\* the collection loop is left as soon as one result is in
AnyCollected(n) == n >= 1

\* `for i, future in enumerate(as_completed(futures))` is exhausted once it has
\* yielded every submitted future
AllCollected(n) == n = Cardinality(tile_inputs)

\* one iteration of `for ... in as_completed(futures)`; future.result() re-raises
\* the task's exception: svc has no try, acq's except block calls pf.result()
\* again inside its print, so the exception leaves the function in both
Collect ==
    /\ schedPc = "collect"
    /\ nCollected < Len(completedQ)
    /\ LET j == completedQ[nCollected + 1] IN
         IF wpc[j] = "returned"
         THEN /\ dem_tile_file_names' =
                    StoreName(dem_tile_file_names, nCollected + 1, FileName(j))
              /\ nCollected' = nCollected + 1
              /\ schedPc' = IF AllCollected(nCollected + 1) THEN "vrt" ELSE "collect"
              /\ UNCHANGED <<raisedSeen, abortCause>>
         ELSE /\ raisedSeen' = raisedSeen \cup {j}
              /\ Raise("job")
              /\ UNCHANGED <<dem_tile_file_names, nCollected>>
    /\ UNCHANGED <<cfgVars, reqVars, tileVars, outVars, answer, local_client, clientState, submits, vrt,
                   completedQ, fileVars, workVars>>

\* the coarse raster that covers the whole region: the 10 m 3DEP VRT that acq
\* is handed as dem_vrt and opens for its CRS
FallbackRaster == <<0, 0>>

\* a source list with the coarse raster put last
SrcListFallbackLast(names) == Append(names, FallbackRaster)

\* srcDSOrSrcDSTab=dem_tile_file_names: the collected file names and nothing else
SrcList(names) == names

\* the source whose value the VRT shows at a pixel every listed source covers
\* with a valid value: GDAL draws the sources in list order, a later source
\* over an earlier one, so it is the last of the list
MosaicAt(srcs) == srcs[Len(srcs)]

\* destVRT with the os.remove left out
RemoveNothing(v) == v

\* `if os.path.exists(destVRT): os.remove(destVRT)`
RemoveIfExists(v) == IF v.state # "absent" THEN RemovedVrt ELSE v

\* acq stops in breakpoint() first: the debugger is resumed or quit (BdbQuit).
\* Then os.remove(destVRT) when it exists and BuildVRT over dem_tile_file_names.
\* GDAL refuses an empty source list and may fail on a source it cannot open:
\* with gdal.UseExceptions() (svc) that raises, without it (acq) BuildVRT
\* raises or returns None, by the GDAL version, and the function goes on.
BuildVRT ==
    /\ schedPc = "vrt"
    /\ \E resumed \in (IF variant = "acq" THEN BOOLEAN ELSE {TRUE}) :
         IF ~resumed
         THEN Raise("BdbQuit") /\ UNCHANGED vrt
         ELSE \E outcome \in
                  (IF dem_tile_file_names # <<>> THEN {"built", "raise"}
                   ELSE IF variant = "acq" THEN {"none", "raise"} ELSE {"raise"}) :
                CASE outcome = "built" ->
                       /\ vrt' = [state |-> "built",
                                  srcs |-> SrcList(dem_tile_file_names),
                                  over |-> RemoveIfExists(vrt).state,
                                  srcNodata |-> SrcNodata(variant),
                                  VRTNodata |-> VRTNodata(variant)]
                       /\ schedPc' = "close"
                       /\ UNCHANGED abortCause
                  [] outcome = "none" ->
                       /\ vrt' = RemoveIfExists(vrt)
                       /\ schedPc' = "close"
                       /\ UNCHANGED abortCause
                  [] outcome = "raise" ->
                       /\ vrt' = RemoveIfExists(vrt)
                       /\ Raise("BuildVRT")
    /\ UNCHANGED <<cfgVars, reqVars, tileVars, outVars, answer, local_client, clientState,
                   submits, nCollected, dem_tile_file_names, raisedSeen,
                   completedQ, dirExists, disk, prev_outputs, ledger, workVars>>

\* `if local_client: client.close()`; local_client is unbound when the caller
\* passed a client
CloseClient ==
    /\ schedPc = "close"
    /\ IF local_client = "unbound"
       THEN Raise("UnboundLocalError") /\ UNCHANGED clientState
       ELSE /\ clientState' = IF local_client = "True" THEN "own_closed"
                              ELSE clientState
            /\ schedPc' = "done"
            /\ UNCHANGED abortCause
    /\ UNCHANGED <<cfgVars, reqVars, tileVars, outVars, answer, local_client, submits, nCollected,
                   dem_tile_file_names, raisedSeen, vrt, completedQ, fileVars,
                   workVars>>

Next ==
    \/ Start
    \/ CreateClient
    \/ Submit
    \/ Collect
    \/ BuildVRT
    \/ CloseClient
    \/ Worker

Spec == Init /\ [][Next]_vars

\* C3 (as claimed): a tile job that ended in failure does not abort the run; it
\* is never the exception of a tile job that leaves the pipeline function.
C3_FailedJobDoesNotAbort ==
    \A j \in Tiles :
        wpc[j] = "raised" => ~(schedPc = "aborted" /\ abortCause = "job")

\* C4 (as claimed): a tile whose task raised is resubmitted by the scheduler,
\* and at most max_retries additional times.
C4_Resubmitted ==
    \A j \in raisedSeen : submits[j] > 1 /\ submits[j] <= 1 + max_retries

\* C5 (as claimed): a tile the ledger lists as succeeded is never submitted and
\* no dynamic or static source call is made for it.
C5_LedgerSkip ==
    \A j \in ledger : submits[j] = 0 /\ dynCalls[j] = 0 /\ statCalls[j] = 0

\* C6 (as claimed): every tile whose successful result the collection loop has
\* collected is recorded in the ledger.
C6_RecordedBeforeNext ==
    \A k \in 1..nCollected : completedQ[k] \in ledger

\* C8 (as claimed): the output file a previous run wrote for a tile is still
\* there at every point of the new run.
C8_OutputUntouched ==
    \A j \in prev_outputs : <<j, 0>> \in disk

\* C14 (as claimed): the source list of a built mosaic ends with the fallback
\* raster and lists it nowhere else.
C14_FallbackLast ==
    vrt.state = "built" =>
        /\ Len(vrt.srcs) >= 1
        /\ vrt.srcs[Len(vrt.srcs)] = FallbackRaster
        /\ \A k \in 1..(Len(vrt.srcs) - 1) : vrt.srcs[k] # FallbackRaster

C16_RemovedBeforeRebuild ==
    vrt.state = "built" =>
        /\ vrt.over \in {"absent", "removed"}
        /\ vrt.srcs = SrcList(dem_tile_file_names)

\* C16 witness: the destination held the mosaic of an earlier run, it was
\* removed and the new mosaic was built.
C16_Witness ==
    /\ vrt.state = "built"
    /\ vrt.over = "removed"
    /\ schedPc \in {"close", "done"}

\* C17 (as claimed): the mosaic build is never invoked with an empty list, and
\* a run that collected no tile output does not get past the build.
C17_NoEmptyMosaic ==
    (schedPc \in {"close", "done"} \/ abortCause = "BuildVRT") =>
        dem_tile_file_names # <<>>

\* C18 (as claimed): when the pipeline function has returned or raised, a
\* client it created itself has been closed.
C18_CreatedClientClosed ==
    schedPc \in {"aborted", "done"} => clientState # "own_open"

\* C19 (as claimed): the raster a job wrote carries a source_used attribute
\* that names the source the data came from, "dynamic" or "static".
C19_SourceUsed ==
    \A j \in Tiles :
        wpc[j] = "returned" =>
            /\ "source_used" \in DOMAIN attrs[j]
            /\ attrs[j]["source_used"] = dem[j]

\* C20: no file is written by more than one job, under every interleaving of
\* the workers.
C20_DistinctOutputFiles ==
    \A p, q \in written : p[1] = q[1] => p[2] = q[2]

\* C20 witness: two jobs of one run have both written their output while the
\* collection loop was still waiting.
C20_Witness ==
    /\ mode = "run"
    /\ schedPc = "collect" /\ nCollected = 0
    /\ \E p, q \in written : p[2] # q[2]

\* the collection loop has run to its end
CollectionEnded == schedPc \in {"vrt", "close", "done"} \/ abortCause = "BuildVRT"

\* the futures the collection loop has consumed so far
Consumed == {completedQ[k] : k \in 1..nCollected}

\* C22: whatever the order in which the tile jobs complete, one job is submitted
\* per row of the tile inputs, the collection loop consumes each future once, and
\* when the loop has run to its end the list of tile files has exactly one entry
\* per submitted job, none of them None and none twice.
C22_OneEntryPerJob ==
    mode = "run" =>
        /\ \A j \in Tiles : submits[j] <= 1 /\ (submits[j] = 1 => j \in tile_inputs)
        /\ nCollected <= Len(completedQ)
        /\ Cardinality(Consumed) = nCollected
        /\ (CollectionEnded =>
              /\ \A j \in tile_inputs : submits[j] = 1
              /\ Len(dem_tile_file_names) = Cardinality(tile_inputs)
              /\ \A k \in DOMAIN dem_tile_file_names :
                     dem_tile_file_names[k] # NoName
              /\ \A j \in tile_inputs :
                     Cardinality({k \in DOMAIN dem_tile_file_names :
                                     dem_tile_file_names[k] = FileName(j)}) = 1)

\* C22 witness: two jobs completed in the order opposite to their submission and
\* the collection loop has consumed both.
C22_Witness ==
    /\ mode = "run"
    /\ CollectionEnded
    /\ tile_inputs = {1, 2}
    /\ completedQ = <<2, 1>>
    /\ nCollected = 2

\* the names of the files the jobs that returned have written
ReturnedNames == {FileName(j) : j \in {t \in tile_inputs : wpc[t] = "returned"}}

\* C23: the mosaic build is invoked only after the result of every submitted job
\* has been collected: whenever the build is due, has run or has failed, no job
\* is pending or running, and the list it is given holds only paths returned by
\* completed jobs.
C23_BuildAfterAllCollected ==
    mode = "run" /\ (CollectionEnded \/ vrt.state = "built") =>
        /\ \A j \in tile_inputs : wpc[j] = "returned" /\ j \in Consumed
        /\ \A k \in DOMAIN dem_tile_file_names :
               dem_tile_file_names[k] \in ReturnedNames
        /\ (vrt.state = "built" =>
               \A k \in DOMAIN vrt.srcs : vrt.srcs[k] \in ReturnedNames)

\* C23 witness: a mosaic built from the results of two jobs.
C23_Witness ==
    /\ mode = "run"
    /\ vrt.state = "built"
    /\ Cardinality(tile_inputs) = 2
    /\ Len(vrt.srcs) = 2

\* C26 (as claimed): in every variant the no-data value written on each tile
\* output of a built mosaic equals the source no-data value the build was
\* configured with and the mosaic's own no-data value.
C26_SharedNodata ==
    mode = "run" /\ vrt.state = "built" =>
        \A j \in tile_inputs :
            /\ nodata[j] = vrt.srcNodata
            /\ nodata[j] = vrt.VRTNodata

\* C27 (as claimed): acq raises ValueError('WBD and 3DEP DEM VRT must have the
\* same CRS') when the two CRS differ, and goes on to tiling and job submission
\* when they are the same.
C27_RaisesOnDifferentCrs ==
    mode = "run" /\ variant = "acq" =>
        /\ (abortCause = "ValueError" => ~same_crs)
        /\ (~same_crs => \A j \in Tiles : submits[j] = 0)

\* C28 (as claimed): in acq with a huc_set, a feature whose HUC is not in the
\* set raises no error: the run is not left by the TypeError of the loop over
\* the tile inputs of that feature.
C28_SkippedRegionNoError ==
    mode = "run" /\ variant = "acq" /\ huc_skipped =>
        ~(abortCause = "TypeError" /\ answer = "unasked")

\* C29 (as claimed): a run that was handed the caller's client never closes it
\* and, once the mosaic is built, completes normally: no exception leaves the
\* pipeline function after the final step.
C29_GivenClientCompletes ==
    mode = "run" /\ client_arg = "given" =>
        /\ clientState \in {"none", "given"}
        /\ (vrt.state = "built" => schedPc # "aborted")

\* the overwrite check is waived: waive_overwrite_check (svc, static), or
\* overwrite_check not set (acq)
Waived == IF variant = "acq" THEN ~overwrite_check ELSE waive_overwrite_check

\* a tile output the earlier run left is gone from dem_3dep_dir
PrevDeleted == ~(PrevFiles(prev_outputs) \subseteq disk)

\* C30 (as claimed): what an earlier run left is deleted only when the check is
\* waived or the answer to the prompt is 'y' or 'yes' in any case; after any
\* other answer nothing is deleted, no tile job is submitted and the function
\* has exited or returned.
C30_DeleteOnlyOnYes ==
    mode = "run" =>
        /\ (PrevDeleted => Waived \/ (answer # "unasked" /\ SaysYes(answer)))
        /\ (answer # "unasked" /\ ~SaysYes(answer) =>
               /\ ~PrevDeleted
               /\ \A j \in Tiles : submits[j] = 0
               /\ schedPc = "exited")

\* ------------------------------------------------------------ tile_geometry
\* The region is a union of closed unit squares of an integer lattice; square
\* <<i, j>> is [i, i+1] x [j, j+1].  np.linspace puts the borders at
\* xmin + k * (xmax - xmin) / num_x_tiles, so every x coordinate is kept
\* multiplied by num_x_tiles and every y coordinate by num_y_tiles: all values
\* are integers and the comparisons are those of exact arithmetic.
LatticeX == 4          \* squares of the lattice along x
LatticeY == LatticeX \div 2     \* squares of the lattice along y
MaxSquares == 3        \* squares of one region
MaxTileSize == LatticeX - 1     \* max_tile_size is drawn from 1..MaxTileSize
MaxBuffer == 1         \* tile_buffer is drawn from 0..MaxBuffer

Lattice == (0..(LatticeX - 1)) \X (0..(LatticeY - 1))
Regions == {g \in SUBSET Lattice : g # {} /\ Cardinality(g) <= MaxSquares}

SetMin(S) == CHOOSE x \in S : \A y \in S : x <= y
SetMax(S) == CHOOSE x \in S : \A y \in S : x >= y
Min2(a, b) == IF a <= b THEN a ELSE b
Max2(a, b) == IF a >= b THEN a ELSE b

\* xmin, ymin, xmax, ymax = geometry.bounds
xmin == SetMin({s[1] : s \in geometry})
ymin == SetMin({s[2] : s \in geometry})
xmax == SetMax({s[1] : s \in geometry}) + 1
ymax == SetMax({s[2] : s \in geometry}) + 1

\* the quotient rounded down instead of up (one tile at least)
NumTilesFloor(extent) ==
    IF extent \div max_tile_size = 0 THEN 1 ELSE extent \div max_tile_size

\* int(np.ceil(extent / max_tile_size))
NumTiles(extent) == (extent + max_tile_size - 1) \div max_tile_size
num_x_tiles == NumTiles(xmax - xmin)
num_y_tiles == NumTiles(ymax - ymin)

\* np.linspace(lo, hi, n + 1)[k], multiplied by n
Border(lo, hi, n, k) == n * lo + k * (hi - lo)
tile_borders_x(k) == Border(xmin, xmax, num_x_tiles, k)
tile_borders_y(k) == Border(ymin, ymax, num_y_tiles, k)

\* tile_borders = list(product(tile_borders_x, tile_borders_y)): both lists have
\* n + 1 elements, and the loop runs over all of them
NumBorders == (num_x_tiles + 1) * (num_y_tiles + 1)
BorderKx(t) == t \div (num_y_tiles + 1)
BorderKy(t) == t % (num_y_tiles + 1)

\* tile_size = borders[1] - borders[0]
tile_size_x == tile_borders_x(1) - tile_borders_x(0)
tile_size_y == tile_borders_y(1) - tile_borders_y(0)

\* the same if / elif / else with the buffer of the minimum-edge branch left out
BufferAxisMinEdgeBare(lo, hi, is_edge_min, is_edge_max, buf) ==
    IF is_edge_max THEN <<lo - buf, hi>>
    ELSE IF is_edge_min THEN <<lo, hi>>
    ELSE <<lo - buf, hi + buf>>

\* the if / elif / else on is_edge_max, is_edge_min of one axis: <<lo, hi>> of
\* the buffered cell from the base cell [lo, hi] and the buffer
BufferAxis(lo, hi, is_edge_min, is_edge_max, buf) ==
    IF is_edge_max THEN <<lo - buf, hi>>
    ELSE IF is_edge_min THEN <<lo, hi + buf>>
    ELSE <<lo - buf, hi + buf>>

\* the base cell at border (kx, ky), its edge flags and box(...) of the buffered cell
BaseCell(kx, ky) ==
    [x0 |-> tile_borders_x(kx), x1 |-> tile_borders_x(kx) + tile_size_x,
     y0 |-> tile_borders_y(ky), y1 |-> tile_borders_y(ky) + tile_size_y]

BufferedBox(kx, ky) ==
    LET b == BaseCell(kx, ky)
        bx == BufferAxis(b.x0, b.x1, b.x0 = num_x_tiles * xmin,
                         b.x1 = num_x_tiles * xmax, num_x_tiles * tile_buffer)
        by == BufferAxis(b.y0, b.y1, b.y0 = num_y_tiles * ymin,
                         b.y1 = num_y_tiles * ymax, num_y_tiles * tile_buffer)
    IN  [x0 |-> bx[1], x1 |-> bx[2], y0 |-> by[1], y1 |-> by[2]]

\* square s in the scaled coordinates
SquareBox(s) ==
    [x0 |-> num_x_tiles * s[1], x1 |-> num_x_tiles * (s[1] + 1),
     y0 |-> num_y_tiles * s[2], y1 |-> num_y_tiles * (s[2] + 1)]

\* the (possibly degenerate or empty) rectangle two closed rectangles share
Overlap(a, b) ==
    [x0 |-> Max2(a.x0, b.x0), x1 |-> Min2(a.x1, b.x1),
     y0 |-> Max2(a.y0, b.y0), y1 |-> Min2(a.y1, b.y1)]

\* 2 area, 1 segment, 0 point, -1 empty
RectDim(r) ==
    IF r.x0 > r.x1 \/ r.y0 > r.y1 THEN -1
    ELSE (IF r.x0 < r.x1 THEN 1 ELSE 0) + (IF r.y0 < r.y1 THEN 1 ELSE 0)

Within(inner, outer) ==
    /\ outer.x0 <= inner.x0 /\ inner.x1 <= outer.x1
    /\ outer.y0 <= inner.y0 /\ inner.y1 <= outer.y1

\* tile.intersection(geometry) as shapely returns it: the kind of geometry
\* (empty; Polygon/MultiPolygon = "area"; lines; points; a GeometryCollection
\* when lower-dimensional parts stick out of the area part) and its validity
Intersection(box, g) ==
    LET piece(s) == Overlap(box, SquareBox(s))
        areaSq == {s \in g : RectDim(piece(s)) = 2}
        segSq == {s \in g : RectDim(piece(s)) = 1}
        ptSq == {s \in g : RectDim(piece(s)) = 0}
        looseSeg == {s \in segSq : \A t \in areaSq : ~Within(piece(s), piece(t))}
        loosePt == {s \in ptSq :
                       \A t \in areaSq \cup segSq : ~Within(piece(s), piece(t))}
        kind == IF areaSq # {}
                THEN (IF looseSeg \cup loosePt = {} THEN "area" ELSE "collection")
                ELSE IF segSq # {}
                THEN (IF loosePt = {} THEN "line" ELSE "collection")
                ELSE IF ptSq # {} THEN "point" ELSE "empty"
    IN  [kind |-> kind, valid |-> invalid_sq \notin areaSq, box |-> box,
         area |-> areaSq]

\* tile_not_empty, tile_is_valid, tile_is_area and the test before `yield tile`
TileNotEmpty(r) == r.kind # "empty"
TileIsValid(r) == r.valid
TileIsArea(r) == r.kind = "area"

YieldsNoAreaTest(r) == TileNotEmpty(r) /\ TileIsValid(r)
Yields(r) == TileNotEmpty(r) /\ TileIsValid(r) /\ TileIsArea(r)

\* max_tile_size = np.floor(np.sqrt(MAX_PIXELS_3DEP)) * dem_resolution
\*                 - 2 * (tile_buffer), with `side` for the first product: the
\* side, in CRS units, of the largest square request the service accepts.
\* tile_buffer = pixel_buffer * dem_resolution is a multiple of the resolution,
\* and the lattice unit is taken as the resolution
MaxTileSizeOf(side, buf) == side - 2 * buf

\* the side the caller computed max_tile_size from
RequestSide == max_tile_size + 2 * tile_buffer

\* sides for which max_tile_size is positive: with max_tile_size <= 0 the tile
\* counts are zero or negative and tile_geometry raises before it builds a cell
InitTile ==
    /\ mode = "tile"
    /\ variant = "acq"
    /\ max_retries = 1
    /\ waive_overwrite_check = FALSE
    /\ overwrite_check = FALSE
    /\ retry = FALSE
    /\ client_arg = "none"
    /\ tile_inputs = {}
    /\ same_crs = FALSE
    /\ huc_skipped = FALSE
    /\ schedPc = "tiling"
    /\ abortCause = "none"
    /\ answer = "unasked"
    /\ local_client = "unbound"
    /\ clientState = "none"
    /\ submits = [j \in Tiles |-> 0]
    /\ completedQ = <<>>
    /\ nCollected = 0
    /\ dem_tile_file_names = <<>>
    /\ raisedSeen = {}
    /\ vrt = NoVrt
    /\ dirExists = TRUE
    /\ disk = {}
    /\ prev_outputs = {}
    /\ ledger = {}
    /\ wpc = [j \in Tiles |-> "idle"]
    /\ retries = [j \in Tiles |-> 0]
    /\ dem = [j \in Tiles |-> "unbound"]
    /\ dynCalls = [j \in Tiles |-> 0]
    /\ statCalls = [j \in Tiles |-> 0]
    /\ allFailed = [j \in Tiles |-> TRUE]
    /\ attrs = [j \in Tiles |-> NoAttrs]
    /\ written = {}
    /\ nodata = [j \in Tiles |-> NoNodata]
    /\ ReqIdle
    /\ geometry \in Regions
    /\ invalid_sq \in {s \in geometry : s[1] = SetMin({q[1] : q \in geometry})}
                       \cup {NoSq}
    /\ tile_buffer \in 0..MaxBuffer
    /\ max_tile_size \in {MaxTileSizeOf(side, tile_buffer) :
                             side \in (2 * tile_buffer + 1)..(2 * tile_buffer + MaxTileSize)}
    /\ tIdx = 0
    /\ cells = <<>>
    /\ tiles = <<>>

\* one iteration of `for x0, y0 in tile_borders`
TileStep ==
    /\ mode = "tile"
    /\ tIdx < NumBorders
    /\ LET kx == BorderKx(tIdx)
           ky == BorderKy(tIdx)
           r == Intersection(BufferedBox(kx, ky), geometry)
           c == [kx |-> kx, ky |-> ky, base |-> BaseCell(kx, ky), result |-> r,
                 yielded |-> Yields(r)]
       IN  /\ cells' = Append(cells, c)
           /\ tiles' = IF Yields(r) THEN Append(tiles, r) ELSE tiles
    /\ tIdx' = tIdx + 1
    /\ UNCHANGED <<cfgVars, reqVars, schedVars, completedQ, fileVars, workVars, outVars,
                   geometry,
                   invalid_sq, max_tile_size, tile_buffer>>

SpecTile == InitTile /\ [][TileStep]_vars

\* the generator is exhausted
TilingDone == mode = "tile" /\ tIdx = NumBorders

\* C9: every geometry tile_geometry has yielded is non-empty, valid and of area
\* type (Polygon or MultiPolygon); an intersection that is empty, invalid, a
\* line, a point or a collection with loose lines or points is never among the
\* yielded tiles.
C9_YieldedAreValidAreas ==
    \A n \in 1..Len(tiles) :
        /\ tiles[n].kind = "area"
        /\ tiles[n].area # {}
        /\ tiles[n].valid

\* C9 witness: the loop has run to its end over a region for which it yielded a
\* tile and discarded a cell whose intersection was a line or a point, a cell
\* whose intersection was empty and a cell whose intersection was invalid.
C9_Witness ==
    /\ TilingDone
    /\ Len(tiles) > 0
    /\ \E n \in 1..Len(cells) :
          cells[n].result.kind \in {"line", "point"} /\ ~cells[n].yielded
    /\ \E n \in 1..Len(cells) :
          cells[n].result.kind = "empty" /\ ~cells[n].yielded
    /\ \E n \in 1..Len(cells) :
          cells[n].result.kind = "area" /\ ~cells[n].result.valid
                                        /\ ~cells[n].yielded

\* the unit cells of the scaled coordinates inside rectangle r
UnitCells(r) ==
    {[x0 |-> u, x1 |-> u + 1, y0 |-> v, y1 |-> v + 1] :
        u \in r.x0..(r.x1 - 1), v \in r.y0..(r.y1 - 1)}

\* the bounding box of the region in the scaled coordinates
BoundsBox ==
    [x0 |-> num_x_tiles * xmin, x1 |-> num_x_tiles * xmax,
     y0 |-> num_y_tiles * ymin, y1 |-> num_y_tiles * ymax]

\* C10 (as claimed): when tile_geometry has run over a valid region, every point
\* of the bounding box lies in the un-buffered footprint of some cell built, and
\* every point of the region lies in some yielded tile.
C10_NoGaps ==
    (TilingDone /\ invalid_sq = NoSq) =>
        /\ \A u \in UnitCells(BoundsBox) :
              \E n \in 1..Len(cells) : Within(u, cells[n].base)
        /\ \A s \in geometry : \A u \in UnitCells(SquareBox(s)) :
              \E n \in 1..Len(tiles) : Within(u, tiles[n].box)

\* C10, first half alone: the un-buffered cells cover the bounding box.
C10_CellsCoverBounds ==
    TilingDone =>
        \A u \in UnitCells(BoundsBox) :
            \E n \in 1..Len(cells) : Within(u, cells[n].base)

\* cells a and b of the grid proper (not of the extra last border) are neighbours
\* across the internal grid line between columns a.kx and a.kx + 1
AdjacentX(a, b) ==
    a.ky = b.ky /\ b.kx = a.kx + 1 /\ b.kx < num_x_tiles /\ a.ky < num_y_tiles

AdjacentY(a, b) ==
    a.kx = b.kx /\ b.ky = a.ky + 1 /\ b.ky < num_y_tiles /\ a.kx < num_x_tiles

\* C11: any two buffered cells that are neighbours across an internal grid line
\* overlap by exactly 2 x tile_buffer across that line, whichever of them is a
\* minimum-edge, interior or maximum-edge cell (x lengths are kept multiplied by
\* num_x_tiles, y lengths by num_y_tiles).
C11_OverlapTwiceBuffer ==
    \A m, n \in 1..Len(cells) :
        /\ AdjacentX(cells[m], cells[n]) =>
              cells[m].result.box.x1 - cells[n].result.box.x0
                  = 2 * num_x_tiles * tile_buffer
        /\ AdjacentY(cells[m], cells[n]) =>
              cells[m].result.box.y1 - cells[n].result.box.y0
                  = 2 * num_y_tiles * tile_buffer

\* C11 witness: the loop has run over a grid of at least 3 columns and 2 rows
\* with a positive buffer, so a minimum-edge, an interior and a maximum-edge
\* cell each have a neighbour across an internal line.
C11_Witness ==
    /\ TilingDone
    /\ tile_buffer > 0
    /\ num_x_tiles >= 3 /\ num_y_tiles >= 2
    /\ \E m, n \in 1..Len(cells) :
          AdjacentX(cells[m], cells[n]) /\ cells[m].kx > 0
              /\ cells[n].kx < num_x_tiles - 1
    /\ \E m, n \in 1..Len(cells) : AdjacentY(cells[m], cells[n])

\* C12 (as claimed): every buffered cell box the loop has built lies within the
\* bounding box of the region.
C12_NoOvershoot ==
    \A n \in 1..Len(cells) : Within(cells[n].result.box, BoundsBox)

\* C13 (as claimed): when the loop is done it has built exactly
\* num_x_tiles x num_y_tiles candidate cells.
C13_CandidateCells ==
    TilingDone => Len(cells) = num_x_tiles * num_y_tiles

\* C25: with max_tile_size = floor(sqrt(MAX_PIXELS)) * resolution - 2 * tile_buffer
\* every buffered cell is at most floor(sqrt(MAX_PIXELS)) * resolution wide and
\* high, and every un-buffered cell has the same size, at most max_tile_size,
\* along each axis (x lengths are kept multiplied by num_x_tiles, y lengths by
\* num_y_tiles).
C25_CellWithinRequestLimit ==
    mode = "tile" =>
        \A n \in 1..Len(cells) :
            LET base == cells[n].base
                buffered == BufferedBox(cells[n].kx, cells[n].ky)
            IN  /\ buffered.x1 - buffered.x0 <= num_x_tiles * RequestSide
                /\ buffered.y1 - buffered.y0 <= num_y_tiles * RequestSide
                /\ base.x1 - base.x0 = tile_size_x
                /\ base.y1 - base.y0 = tile_size_y
                /\ tile_size_x <= num_x_tiles * max_tile_size
                /\ tile_size_y <= num_y_tiles * max_tile_size

\* C25 witness: the loop has run to its end and built a cell that is buffered
\* on both sides along x and is exactly as wide as the limit.
C25_Witness ==
    /\ TilingDone
    /\ tile_buffer > 0
    /\ \E n \in 1..Len(cells) :
          LET buffered == BufferedBox(cells[n].kx, cells[n].ky)
          IN  /\ buffered.x1 - buffered.x0 = num_x_tiles * RequestSide
              /\ buffered.x1 - buffered.x0 = tile_size_x + 2 * num_x_tiles * tile_buffer

\* --------------------------------- retry_request(url, max_retries, sleep_time)
\* (the same function in create_3dep_tile_index.py, create_3dep_1m_tile_index.py,
\* generate_3dep_1m_vrt.py and get_3dep_static_tiles.py)
MaxRequestRetries == 5   \* max_retries is drawn from 0..MaxRequestRetries

\* what requests.get(url) can do: answer 200, answer another status, or raise
\* requests.exceptions.ConnectionError
GetOutcomes == {"200", "non200", "conn_error"}

\* the scheduler-, worker- and tile-side variables while only retry_request runs
PipelineIdle ==
    /\ variant = "static"
    /\ max_retries = 1
    /\ waive_overwrite_check = FALSE
    /\ overwrite_check = FALSE
    /\ retry = FALSE
    /\ client_arg = "none"
    /\ tile_inputs = {}
    /\ same_crs = FALSE
    /\ huc_skipped = FALSE
    /\ schedPc = "request"
    /\ abortCause = "none"
    /\ answer = "unasked"
    /\ local_client = "unbound"
    /\ clientState = "none"
    /\ submits = [j \in Tiles |-> 0]
    /\ completedQ = <<>>
    /\ nCollected = 0
    /\ dem_tile_file_names = <<>>
    /\ raisedSeen = {}
    /\ vrt = NoVrt
    /\ dirExists = TRUE
    /\ disk = {}
    /\ prev_outputs = {}
    /\ ledger = {}
    /\ wpc = [j \in Tiles |-> "idle"]
    /\ retries = [j \in Tiles |-> 0]
    /\ dem = [j \in Tiles |-> "unbound"]
    /\ dynCalls = [j \in Tiles |-> 0]
    /\ statCalls = [j \in Tiles |-> 0]
    /\ allFailed = [j \in Tiles |-> TRUE]
    /\ attrs = [j \in Tiles |-> NoAttrs]
    /\ written = {}
    /\ nodata = [j \in Tiles |-> NoNodata]
    /\ TileIdle

InitRetry ==
    /\ mode = "request"
    /\ PipelineIdle
    /\ rq_max_retries \in 0..MaxRequestRetries
    /\ rq_pc = "loop"
    /\ rq_i = Unbound
    /\ response = "unbound"
    /\ rq_log = <<>>
    /\ rq_exc = "none"

\* a 200 answer does not end the call
OnStatus200Continue == "loop"

\* `return response` once the status code is 200
OnStatus200 == "returned"

\* one iteration of `for i in range(max_retries)`: the request, then return on
\* 200, or sleep and continue on another status or on ConnectionError
RequestAttempt ==
    /\ mode = "request"
    /\ rq_pc = "loop"
    /\ rq_i + 1 < rq_max_retries
    /\ rq_i' = rq_i + 1
    /\ \E outcome \in GetOutcomes :
         /\ rq_log' = Append(rq_log, outcome)
         /\ CASE outcome = "200" ->
                   /\ response' = "200"
                   /\ rq_pc' = OnStatus200
              [] outcome = "non200" ->
                   /\ response' = "non200"
                   /\ rq_pc' = "loop"
              [] outcome = "conn_error" ->
                   /\ UNCHANGED response
                   /\ rq_pc' = "loop"
    /\ UNCHANGED <<rq_max_retries, rq_exc>>
    /\ UNCHANGED <<cfgVars, schedVars, completedQ, fileVars, workVars, outVars, tileVars>>

\* the statements after the loop: `if i == (max_retries - 1): raise ...
\* elif response.status_code != 200: raise ...`, else the function ends and
\* returns None. With an empty range i was never bound and reading it raises
\* UnboundLocalError
RequestGiveUp ==
    /\ mode = "request"
    /\ rq_pc = "loop"
    /\ ~(rq_i + 1 < rq_max_retries)
    /\ IF rq_i = Unbound
       THEN rq_pc' = "raised" /\ rq_exc' = "UnboundLocalError"
       ELSE IF rq_i = rq_max_retries - 1
       THEN rq_pc' = "raised" /\ rq_exc' = "ConnectionError"
       ELSE IF response = "unbound"
       THEN rq_pc' = "raised" /\ rq_exc' = "UnboundLocalError"
       ELSE IF response # "200"
       THEN rq_pc' = "raised" /\ rq_exc' = "ConnectionError"
       ELSE rq_pc' = "fell_off" /\ rq_exc' = "none"
    /\ UNCHANGED <<rq_max_retries, rq_i, response, rq_log>>
    /\ UNCHANGED <<cfgVars, schedVars, completedQ, fileVars, workVars, outVars, tileVars>>

NextRetry == RequestAttempt \/ RequestGiveUp

SpecRetry == InitRetry /\ [][NextRetry]_vars

\* the call has ended: by return, by an exception, or by running off its end
RequestEnded == rq_pc \in {"returned", "raised", "fell_off"}

\* C21: one call of retry_request issues at most max_retries requests, no request
\* is issued after one that answered 200, and the call that got a 200 answer has
\* returned that response.
C21_AtMostMaxRetriesFirst200Returned ==
    /\ Len(rq_log) <= rq_max_retries
    /\ \A k \in 1..(Len(rq_log) - 1) : rq_log[k] # "200"
    /\ (Len(rq_log) > 0 /\ rq_log[Len(rq_log)] = "200" =>
           rq_pc = "returned" /\ response = "200" /\ rq_exc = "none")

\* a call that returned the 200 answer of its third request after a non-200
\* answer and a ConnectionError
C21_Witness ==
    /\ rq_pc = "returned"
    /\ rq_log = <<"non200", "conn_error", "200">>
    /\ rq_max_retries > 3

\* C24 (as claimed): for every max_retries >= 0, a call all of whose attempts
\* failed ends by raising ConnectionError after exactly max_retries attempts, and
\* the call never ends normally without a 200 response.
C24_AllFailedRaisesConnectionError ==
    /\ (RequestEnded /\ (\A k \in 1..Len(rq_log) : rq_log[k] # "200") =>
           /\ rq_pc = "raised"
           /\ rq_exc = "ConnectionError"
           /\ Len(rq_log) = rq_max_retries)
    /\ (rq_pc \in {"returned", "fell_off"} => response = "200")

=============================================================================
